---- MODULE Spec2Model ----
(***************************************************************************)
(* State-machine model of the VennStack puzzle engine                      *)
(* (src/src/hooks/useVennEngine.ts, first variant, lines 1-445) together   *)
(* with the completion snapshot that the application stores and hands back *)
(* to the engine (src/unnamed/part_015, src/src/hooks/useStats.ts).        *)
(*                                                                         *)
(* Every handler of the hook is one action.  React state setters called in *)
(* one handler are batched and committed together, so a handler is atomic. *)
(***************************************************************************)
EXTENDS FiniteSets, Integers, Sequences, TLC

(***************************************************************************)
(* Bounds and program constants                                            *)
(***************************************************************************)

\* Number of items of a puzzle in the model (a real puzzle has ten).
NumItems == 3

\* A category is revealed once this many of its items are locked.
RevealThreshold == 3

Zones == {"left", "right", "both", "outside"}

\* "none" stands for `undefined`: the item id is not a key of the Map.
NoZone == "none"

Items == 1..NumItems

\* The puzzle catalogue: canonical zone of each item, in puzzle order.
\* Only the first NumItems entries of a puzzle are its items.
Puzzles ==
  << <<"left", "right", "left", "left", "both", "outside">>,
     <<"left", "left", "left", "right", "both", "outside">>,
     <<"right", "right", "right", "left", "both", "outside">>,
     <<"both", "outside", "right", "left", "left", "right">> >>

PuzzleIds == 1..Len(Puzzles)

VARIABLES
  puzzle,          \* puzzleData: index into the catalogue
  isCompleted,     \* prop: the puzzle was completed earlier (store frozen)
  lockedState,     \* prop: snapshot stored at completion, or NoLockedState
  itemPlacements,  \* Map<string, Zone>
  zoneOrder,       \* Map<Zone, string[]>
  lockedItems,     \* Set<string>
  revealedRules,   \* { left: boolean; right: boolean }
  isMirrored,      \* boolean
  lastOp,          \* the last call: its name, its item and what it returned
  history,         \* observer of the placement store (SpecStore only)
  zoneElement,     \* the target zone's element and its cards (SpecResolver)
  lastDrop,        \* the last calculateInsertPosition call and its result
  gesture,         \* the last handleDrop call and the calls it made (SpecRouter)
  updateQueue,     \* state updates queued and not yet rendered (SpecRender)
  appState         \* checkAttempts, canCheckPuzzle, isGameOver of the page (SpecGame)

vars == << puzzle, isCompleted, lockedState, itemPlacements, zoneOrder,
           lockedItems, revealedRules, isMirrored, lastOp, history,
           zoneElement, lastDrop, gesture, updateQueue, appState >>

store == << itemPlacements, zoneOrder, lockedItems, revealedRules, isMirrored >>

props == << puzzle, isCompleted, lockedState >>

layout == << zoneElement, lastDrop, gesture >>

(***************************************************************************)
(* Values                                                                  *)
(***************************************************************************)

\* insertAfterId?: string | null  -- null, undefined or a concrete id
AnchorNull == [kind |-> "null", id |-> 0]
AnchorUndefined == [kind |-> "undefined", id |-> 0]
AnchorId(i) == [kind |-> "id", id |-> i]
Anchors == {AnchorNull, AnchorUndefined} \cup {AnchorId(i) : i \in Items}

EmptyPlacements == [i \in Items |-> NoZone]
EmptyOrder == [z \in Zones |-> << >>]
NoRules == [left |-> FALSE, right |-> FALSE]
AllRules == [left |-> TRUE, right |-> TRUE]

NoLockedState ==
  [present |-> FALSE, itemPlacements |-> EmptyPlacements,
   zoneOrder |-> EmptyOrder, lockedItems |-> {}, revealedRules |-> NoRules]

\* A call and its return value: validatePuzzle returns
\* { correct, incorrect, isMirrored }, revealOneHint an id or null (0).
\* crystallized is the local of that name of validatePuzzle.
Op(name, id) ==
  [name |-> name, id |-> id,
   correct |-> {}, incorrect |-> {}, isMirrored |-> FALSE, hint |-> 0,
   crystallized |-> FALSE]

\* What the observer of the placement store records of a call: its
\* arguments, the store before it (before), whether it repeats the previous
\* call (repeated), whether it is the removeItem that directly follows a
\* placeItem of the same item (chained), and then the store before that
\* placeItem (origin).
StoreView(placements, order) == [itemPlacements |-> placements, zoneOrder |-> order]

NoHistory ==
  [name |-> "none", id |-> 0, zone |-> NoZone, anchor |-> AnchorUndefined,
   before |-> StoreView(EmptyPlacements, EmptyOrder),
   origin |-> StoreView(EmptyPlacements, EmptyOrder),
   repeated |-> FALSE, chained |-> FALSE]

\* item.zone of item i of the current puzzle
ItemZone(p, i) == Puzzles[p][i]

(***************************************************************************)
(* Pure helpers of the hook                                                *)
(***************************************************************************)

\* Variant: the orientation is ignored.
getExpectedZoneStandard(zone, mirrored) == zone

\* Variant: a mirrored orientation swaps both and outside as well.
getExpectedZoneSwapsAll(zone, mirrored) ==
  IF ~mirrored THEN zone
  ELSE IF zone = "left" THEN "right"
  ELSE IF zone = "right" THEN "left"
  ELSE IF zone = "both" THEN "outside"
  ELSE "both"

getExpectedZone(zone, mirrored) ==
  IF zone = "left" THEN (IF mirrored THEN "right" ELSE "left")
  ELSE IF zone = "right" THEN (IF mirrored THEN "left" ELSE "right")
  ELSE zone

standardMatches(p, placements) ==
  Cardinality({i \in Items :
    /\ placements[i] # NoZone
    /\ ItemZone(p, i) \in {"left", "right"}
    /\ placements[i] = ItemZone(p, i)})

mirroredMatches(p, placements) ==
  Cardinality({i \in Items :
    /\ placements[i] # NoZone
    /\ \/ ItemZone(p, i) = "left" /\ placements[i] = "right"
       \/ ItemZone(p, i) = "right" /\ placements[i] = "left"})

\* Variant: a tie counts as mirrored.
calculateIsMirroredOnTie(p, placements) ==
  mirroredMatches(p, placements) >= standardMatches(p, placements)

calculateIsMirrored(p, placements) ==
  mirroredMatches(p, placements) > standardMatches(p, placements)

isOrientationCrystallized(p, locked) ==
  \E i \in Items : i \in locked /\ ItemZone(p, i) \in {"left", "right"}

(***************************************************************************)
(* Array helpers                                                           *)
(***************************************************************************)

\* order.filter(id => id !== itemId)
Without(order, itemId) == SelectSeq(order, LAMBDA x : x # itemId)

\* Array.prototype.indexOf: 0-based index of the first occurrence, else -1
indexOf(order, x) ==
  IF \E k \in 1..Len(order) : order[k] = x
  THEN (CHOOSE k \in 1..Len(order) :
          order[k] = x /\ \A j \in 1..(k - 1) : order[j] # x) - 1
  ELSE -1

\* newOrder.splice(start, 0, itemId) for 0 <= start <= length
spliceIn(order, start, itemId) ==
  SubSeq(order, 1, start) \o <<itemId>> \o SubSeq(order, start + 1, Len(order))

\* Variant: the item is not removed from the zones it occupies.
placeInOrderNoCleanup(prev, itemId, targetZone, insertAfterId) ==
  LET targetOrder == prev[targetZone]
  IN  IF insertAfterId.kind = "null"
      THEN [prev EXCEPT ![targetZone] = <<itemId>> \o targetOrder]
      ELSE IF insertAfterId.kind = "id"
      THEN [prev EXCEPT ![targetZone] =
              spliceIn(targetOrder, indexOf(targetOrder, insertAfterId.id) + 1,
                       itemId)]
      ELSE [prev EXCEPT ![targetZone] = Append(targetOrder, itemId)]

\* Variant: the target order is read before the item is removed from it.
placeInOrderStaleTarget(prev, itemId, targetZone, insertAfterId) ==
  LET next == [z \in Zones |-> Without(prev[z], itemId)]
      targetOrder == prev[targetZone]
  IN  IF insertAfterId.kind = "null"
      THEN [next EXCEPT ![targetZone] = <<itemId>> \o targetOrder]
      ELSE IF insertAfterId.kind = "id"
      THEN [next EXCEPT ![targetZone] =
              spliceIn(targetOrder, indexOf(targetOrder, insertAfterId.id) + 1,
                       itemId)]
      ELSE [next EXCEPT ![targetZone] = Append(targetOrder, itemId)]

\* Variant: splice at the anchor's index, so the item lands before it.
placeInOrderBeforeAnchor(prev, itemId, targetZone, insertAfterId) ==
  LET next == [z \in Zones |-> Without(prev[z], itemId)]
      targetOrder == next[targetZone]
      at == indexOf(targetOrder, insertAfterId.id)
  IN  IF insertAfterId.kind = "null"
      THEN [next EXCEPT ![targetZone] = <<itemId>> \o targetOrder]
      ELSE IF insertAfterId.kind = "id"
      THEN [next EXCEPT ![targetZone] =
              spliceIn(targetOrder, IF at < 0 THEN 0 ELSE at, itemId)]
      ELSE [next EXCEPT ![targetZone] = Append(targetOrder, itemId)]

\* Variant: an undefined anchor is treated like null.
placeInOrderPrepends(prev, itemId, targetZone, insertAfterId) ==
  LET next == [z \in Zones |-> Without(prev[z], itemId)]
      targetOrder == next[targetZone]
  IN  IF insertAfterId.kind = "id"
      THEN [next EXCEPT ![targetZone] =
              spliceIn(targetOrder, indexOf(targetOrder, insertAfterId.id) + 1,
                       itemId)]
      ELSE [next EXCEPT ![targetZone] = <<itemId>> \o targetOrder]

\* Variant: the target zone's order is replaced by the item alone.
placeInOrderAlone(prev, itemId, targetZone, insertAfterId) ==
  LET next == [z \in Zones |-> Without(prev[z], itemId)]
  IN  [next EXCEPT ![targetZone] = <<itemId>>]

\* The updater passed to setZoneOrder by placeItem.
placeInOrder(prev, itemId, targetZone, insertAfterId) ==
  LET next == [z \in Zones |-> Without(prev[z], itemId)]
      targetOrder == next[targetZone]
  IN  IF insertAfterId.kind = "null"
      THEN [next EXCEPT ![targetZone] = <<itemId>> \o targetOrder]
      ELSE IF insertAfterId.kind = "id"
      THEN [next EXCEPT ![targetZone] =
              spliceIn(targetOrder, indexOf(targetOrder, insertAfterId.id) + 1,
                       itemId)]
      ELSE [next EXCEPT ![targetZone] = Append(targetOrder, itemId)]

\* Variant: removeItem forgets the zone orders.
removeFromOrderForgotten(prev, itemId) == prev

\* Variant: removeItem strips the id from the exclusive zones only.
removeFromOrderExclusiveOnly(prev, itemId) ==
  [z \in Zones |->
     IF z \in {"left", "right"} THEN Without(prev[z], itemId) ELSE prev[z]]

\* The updater passed to setZoneOrder by removeItem.
removeFromOrder(prev, itemId) == [z \in Zones |-> Without(prev[z], itemId)]

\* The two counts and the threshold test of the setRevealedRules updaters.
leftCount(p, locked) ==
  Cardinality({i \in Items : ItemZone(p, i) = "left" /\ i \in locked})

rightCount(p, locked) ==
  Cardinality({i \in Items : ItemZone(p, i) = "right" /\ i \in locked})

\* Variant: the threshold must be exceeded, not reached.
countedRulesStrict(prev, p, updatedLocked) ==
  [left |-> prev.left \/ leftCount(p, updatedLocked) > RevealThreshold,
   right |-> prev.right \/ rightCount(p, updatedLocked) > RevealThreshold]

\* Variant: a flag is set one locked item before the threshold.
countedRulesEarly(prev, p, updatedLocked) ==
  [left |-> prev.left \/ leftCount(p, updatedLocked) >= RevealThreshold - 1,
   right |-> prev.right \/ rightCount(p, updatedLocked) >= RevealThreshold - 1]

countedRules(prev, p, updatedLocked) ==
  [left |-> prev.left \/ leftCount(p, updatedLocked) >= RevealThreshold,
   right |-> prev.right \/ rightCount(p, updatedLocked) >= RevealThreshold]

\* Variant: the flags are recomputed from the counts alone.
validateRulesRecomputed(prev, p, updatedLocked) ==
  [left |-> leftCount(p, updatedLocked) >= RevealThreshold,
   right |-> rightCount(p, updatedLocked) >= RevealThreshold]

validateRules(prev, p, updatedLocked) ==
  IF Cardinality(updatedLocked) = NumItems
  THEN AllRules
  ELSE countedRules(prev, p, updatedLocked)

(***************************************************************************)
(* Spatial insertion resolver (calculateInsertPosition)                    *)
(***************************************************************************)

NumCards == 3

ROW_TOLERANCE == 20

TOLERANCE == 30

\* Geometry the cards of a zone are drawn from: horizontal centers and
\* half widths of the bounding boxes, and their vertical extents: vertical
\* centers 15 and 19 (4 apart), 35 (16 from 19 and 20 from 15) and 65.
CenterXs == {10, 50, 90}

HalfWidths == {2, 6}

RowBands == {[top |-> 0, bottom |-> 30], [top |-> 4, bottom |-> 34],
             [top |-> 20, bottom |-> 50], [top |-> 50, bottom |-> 80]}

DropXs == {5, 45, 95}

DropYs == {0 - 5, 10, 40, 45, 90}

\* getBoundingClientRect() of a card, with its data-card-id.
CardRect(cardId, centerX, halfWidth, band) ==
  [cardId |-> cardId, left |-> centerX - halfWidth,
   right |-> centerX + halfWidth, top |-> band.top, bottom |-> band.bottom]

\* The zone element is not in the document.
NoElement == [mounted |-> FALSE, cards |-> << >>]

NoDrop ==
  [called |-> FALSE, x |-> 0, y |-> 0, draggedCardId |-> 0,
   result |-> AnchorUndefined]

Abs(n) == IF n < 0 THEN 0 - n ELSE n

\* Twice rect.left + rect.width / 2 and twice rect.top + rect.height / 2:
\* centers are compared doubled, which keeps them integers.
centerX2(card) == card.left + card.right

centerY2(card) == card.top + card.bottom

\* Array.prototype.sort with the comparator (a, b) => key(a) - key(b), the
\* keys of the elements being given as a parallel sequence: stable.
sortBy(seq, keys) ==
  LET n == Len(seq)
      rank(i) ==
        Cardinality({j \in 1..n :
                       \/ keys[j] < keys[i]
                       \/ keys[j] = keys[i] /\ j < i}) + 1
  IN  [pos \in 1..n |-> seq[CHOOSE i \in 1..n : rank(i) = pos]]

\* Variant: the dragged card is not filtered out.
cardDataWithDragged(cards, draggedCardId) == cards

\* The cards of the zone other than the dragged one, in document order.
cardData(cards, draggedCardId) ==
  SelectSeq(cards, LAMBDA card : card.cardId # draggedCardId)

\* Variant: a card is compared with the last member of each row.
RECURSIVE groupRowsByLastMember(_, _)
groupRowsByLastMember(rows, cards) ==
  IF cards = << >>
  THEN rows
  ELSE LET card == Head(cards)
           existing ==
             {k \in 1..Len(rows) :
                Abs(centerY2(rows[k][Len(rows[k])]) - centerY2(card))
                  < 2 * ROW_TOLERANCE}
           existingRow == CHOOSE k \in existing : \A j \in existing : k <= j
       IN  groupRowsByLastMember(
             IF existing # {}
             THEN [rows EXCEPT ![existingRow] = Append(@, card)]
             ELSE Append(rows, << card >>),
             Tail(cards))

\* cardData.forEach: a card joins the first row whose first member's
\* vertical center is within ROW_TOLERANCE of its own, else starts a row.
RECURSIVE groupRows(_, _)
groupRows(rows, cards) ==
  IF cards = << >>
  THEN rows
  ELSE LET card == Head(cards)
           existing ==
             {k \in 1..Len(rows) :
                Abs(centerY2(rows[k][1]) - centerY2(card)) < 2 * ROW_TOLERANCE}
           existingRow == CHOOSE k \in existing : \A j \in existing : k <= j
       IN  groupRows(IF existing # {}
                     THEN [rows EXCEPT ![existingRow] = Append(@, card)]
                     ELSE Append(rows, << card >>),
                     Tail(cards))

rowCenterY2(row) == centerY2(row[1])

\* Rows sorted left to right inside, then top to bottom by first member.
sortedRows(data) ==
  LET grouped == groupRows(<< >>, data)
      sortedRow(row) == sortBy(row, [k \in 1..Len(row) |-> centerX2(row[k])])
      each == [k \in 1..Len(grouped) |-> sortedRow(grouped[k])]
  IN  sortBy(each, [k \in 1..Len(each) |-> rowCenterY2(each[k])])

rowTop(row) ==
  CHOOSE t \in {row[k].top : k \in 1..Len(row)} :
    \A k \in 1..Len(row) : t <= row[k].top

rowBottom(row) ==
  CHOOSE b \in {row[k].bottom : k \in 1..Len(row)} :
    \A k \in 1..Len(row) : b >= row[k].bottom

\* Indices of the rows whose vertical span contains y.
containingRows(rows, y) ==
  {k \in 1..Len(rows) : y >= rowTop(rows[k]) /\ y <= rowBottom(rows[k])}

\* Variant: the lowest row is taken instead of the closest.
closestRowIsLast(rows, y) == Len(rows)

\* rowDistances sorted by distance (stable): the index of its first entry.
closestRow(rows, y) ==
  LET dist(k) == Abs(centerY2(rows[k][1]) - 2 * y)
  IN  CHOOSE k \in 1..Len(rows) :
        \A j \in 1..Len(rows) :
          dist(k) < dist(j) \/ (dist(k) = dist(j) /\ k <= j)

\* "Insert before the card at index i of the row".
beforeCard(targetRow, i) ==
  IF i = 1 THEN AnchorNull ELSE AnchorId(targetRow[i - 1].cardId)

\* Variant: a drop on a card always inserts after that card.
insertInRowAfterHit(targetRow, x) ==
  LET rightmostCard == targetRow[Len(targetRow)]
      leftmostCard == targetRow[1]
      reached == {i \in 1..Len(targetRow) : x <= targetRow[i].right}
      i == CHOOSE k \in reached : \A j \in reached : k <= j
  IN  IF x > rightmostCard.right + TOLERANCE
      THEN AnchorId(rightmostCard.cardId)
      ELSE IF x < leftmostCard.left - TOLERANCE
      THEN AnchorNull
      ELSE IF reached = {}
      THEN AnchorId(rightmostCard.cardId)
      ELSE IF x < targetRow[i].left
      THEN beforeCard(targetRow, i)
      ELSE AnchorId(targetRow[i].cardId)

\* Step 3: the anchor inside the target row for the drop abscissa x.
insertInRow(targetRow, x) ==
  LET rightmostCard == targetRow[Len(targetRow)]
      leftmostCard == targetRow[1]
      \* the loop passes every card that lies entirely left of x
      reached == {i \in 1..Len(targetRow) : x <= targetRow[i].right}
      i == CHOOSE k \in reached : \A j \in reached : k <= j
  IN  IF x > rightmostCard.right + TOLERANCE
      THEN AnchorId(rightmostCard.cardId)
      ELSE IF x < leftmostCard.left - TOLERANCE
      THEN AnchorNull
      ELSE IF reached = {}
      THEN AnchorId(rightmostCard.cardId)
      ELSE IF x < targetRow[i].left
      THEN beforeCard(targetRow, i)
      ELSE IF 2 * x < targetRow[i].left + targetRow[i].right
      THEN beforeCard(targetRow, i)
      ELSE AnchorId(targetRow[i].cardId)

\* Variant: a drop outside every row is always resolved in the closest row.
calculateInsertPositionNoBounds(element, x, y, draggedCardId) ==
  IF ~element.mounted
  THEN AnchorUndefined
  ELSE LET data == cardData(element.cards, draggedCardId)
           rows == sortedRows(data)
           containing == containingRows(rows, y)
       IN  IF data = << >>
           THEN AnchorNull
           ELSE IF containing # {}
           THEN insertInRow(
                  rows[CHOOSE k \in containing : \A j \in containing : k <= j],
                  x)
           ELSE insertInRow(rows[closestRow(rows, y)], x)

calculateInsertPosition(element, x, y, draggedCardId) ==
  IF ~element.mounted
  THEN AnchorUndefined
  ELSE LET data == cardData(element.cards, draggedCardId)
           rows == sortedRows(data)
           containing == containingRows(rows, y)
       IN  IF data = << >>
           THEN AnchorNull
           ELSE IF containing # {}
           THEN insertInRow(
                  rows[CHOOSE k \in containing : \A j \in containing : k <= j],
                  x)
           ELSE IF y > rows[Len(rows)][1].bottom
           THEN AnchorUndefined
           ELSE IF y < rows[1][1].top
           THEN AnchorNull
           ELSE insertInRow(rows[closestRow(rows, y)], x)

(***************************************************************************)
(* Values of the drop router (handleDrop)                                  *)
(***************************************************************************)

\* What the gesture ended over: nothing, a droppable that is not a zone
\* (a card, or one without data), the unplaced pool, a zone droppable whose
\* zone string is not recognized, or one of the four zones.
Overs == {"nothing", "card", "word-pool", "elsewhere"} \cup Zones

\* mousePosition: null, or the last tracked pointer position.
NoPosition == [tracked |-> FALSE, x |-> 0, y |-> 0]

\* Ordinates of tracked pointer positions: inside the first row of cards
\* and inside the second.
PointerYs == {10, 65}

MousePositions ==
  {NoPosition} \cup [tracked : {TRUE}, x : DropXs, y : PointerYs]

\* Center of the zone element's bounding box (the zone spans 0..100
\* horizontally and 0..80 vertically).
ZoneCenter == [tracked |-> TRUE, x |-> 50, y |-> 40]

\* Cards per row of the flex-wrap container (a column, or one row), and
\* where its slots are.
RowLengths == {1, 3}

SlotCenters == << 10, 50, 90 >>

SlotBands == << [top |-> 0, bottom |-> 30], [top |-> 50, bottom |-> 80] >>

SlotHalfWidth == 6

\* The zone element as rendered for a zone order: the cards in order, left
\* to right, wrapping after perRow cards.
zoneLayout(order, perRow) ==
  [mounted |-> TRUE,
   cards |-> [k \in 1..Len(order) |->
                CardRect(order[k], SlotCenters[((k - 1) % perRow) + 1],
                         SlotHalfWidth, SlotBands[((k - 1) \div perRow) + 1])]]

Call(fn, itemId, zone, anchor) ==
  [fn |-> fn, id |-> itemId, zone |-> zone, anchor |-> anchor]

NoGesture ==
  [handled |-> FALSE, id |-> 0, over |-> "nothing", mounted |-> FALSE, resolved |-> FALSE, result |-> AnchorUndefined,
   calls |-> << >>]

(***************************************************************************)
(* Initial state: the hook mounted on a puzzle that is not completed       *)
(***************************************************************************)

\* State of the page that hosts the hook, for a puzzle that is opened fresh.
NewGame == [checkAttempts |-> 0, canCheckPuzzle |-> TRUE, isGameOver |-> FALSE]

Init ==
  /\ puzzle \in PuzzleIds
  /\ isCompleted = FALSE
  /\ lockedState = NoLockedState
  /\ itemPlacements = EmptyPlacements
  /\ zoneOrder = EmptyOrder
  /\ lockedItems = {}
  /\ revealedRules = NoRules
  /\ isMirrored = FALSE
  /\ lastOp = Op("mount", 0)
  /\ history = NoHistory
  /\ zoneElement = NoElement
  /\ lastDrop = NoDrop
  /\ gesture = NoGesture
  /\ updateQueue = << >>
  /\ appState = NewGame

(***************************************************************************)
(* Placement Store                                                         *)
(***************************************************************************)

\* Variant: the isCompleted guard is missing.
placeItemUnguarded(itemId, targetZone, insertAfterId) ==
  /\ itemPlacements' = [itemPlacements EXCEPT ![itemId] = targetZone]
  /\ zoneOrder' = placeInOrder(zoneOrder, itemId, targetZone, insertAfterId)
  /\ lastOp' = Op("placeItem", itemId)
  /\ UNCHANGED << lockedItems, revealedRules, isMirrored, props >>

placeItem(itemId, targetZone, insertAfterId) ==
  /\ IF isCompleted
     THEN UNCHANGED << itemPlacements, zoneOrder >>
     ELSE /\ itemPlacements' = [itemPlacements EXCEPT ![itemId] = targetZone]
          /\ zoneOrder' = placeInOrder(zoneOrder, itemId, targetZone, insertAfterId)
  /\ lastOp' = Op("placeItem", itemId)
  /\ UNCHANGED << lockedItems, revealedRules, isMirrored, props >>

removeItem(itemId) ==
  /\ IF isCompleted
     THEN UNCHANGED << itemPlacements, zoneOrder >>
     ELSE /\ itemPlacements' = [itemPlacements EXCEPT ![itemId] = NoZone]
          /\ zoneOrder' = removeFromOrder(zoneOrder, itemId)
  /\ lastOp' = Op("removeItem", itemId)
  /\ UNCHANGED << lockedItems, revealedRules, isMirrored, props >>

(***************************************************************************)
(* Validation Engine                                                       *)
(***************************************************************************)

\* The placements of the locked items alone.
lockedPlacements ==
  [i \in Items |-> IF i \in lockedItems THEN itemPlacements[i] ELSE NoZone]

\* Variant: the orientation is calculated from the locked items alone.
resolvedMirroredFromLocked ==
  IF isOrientationCrystallized(puzzle, lockedItems)
  THEN isMirrored
  ELSE calculateIsMirrored(puzzle, lockedPlacements)

\* Variant: the orientation is recalculated even when crystallized.
resolvedMirroredAlways == calculateIsMirrored(puzzle, itemPlacements)

\* Orientation used by one validatePuzzle call.
resolvedMirrored ==
  IF isOrientationCrystallized(puzzle, lockedItems)
  THEN isMirrored
  ELSE calculateIsMirrored(puzzle, itemPlacements)

correctItems(mirrored) ==
  {i \in Items :
     /\ itemPlacements[i] # NoZone
     /\ itemPlacements[i] = getExpectedZone(ItemZone(puzzle, i), mirrored)}

incorrectItems(mirrored) ==
  {i \in Items :
     /\ itemPlacements[i] # NoZone
     /\ itemPlacements[i] # getExpectedZone(ItemZone(puzzle, i), mirrored)}

\* Variant: the locked set is replaced by the items found correct.
validatePuzzleReplacesLocked ==
  /\ IF isCompleted
     THEN /\ UNCHANGED << lockedItems, revealedRules, isMirrored >>
          /\ lastOp' = Op("validatePuzzle", 0)
     ELSE LET currentIsMirrored == resolvedMirrored
              correct == correctItems(currentIsMirrored)
              incorrect == incorrectItems(currentIsMirrored)
          IN  /\ isMirrored' = currentIsMirrored
              /\ lockedItems' = correct
              /\ revealedRules' =
                   validateRules(revealedRules, puzzle, lockedItems \cup correct)
              /\ lastOp' = [Op("validatePuzzle", 0)
                              EXCEPT !.correct = correct,
                                     !.incorrect = incorrect,
                                     !.isMirrored = currentIsMirrored,
                                     !.crystallized =
                                       isOrientationCrystallized(
                                         puzzle, lockedItems)]
  /\ UNCHANGED << itemPlacements, zoneOrder, props >>

\* Variant: the items found incorrect are returned to the pool.
validatePuzzleReturnsIncorrect ==
  /\ IF isCompleted
     THEN /\ UNCHANGED << lockedItems, revealedRules, isMirrored,
                          itemPlacements, zoneOrder >>
          /\ lastOp' = Op("validatePuzzle", 0)
     ELSE LET currentIsMirrored == resolvedMirrored
              correct == correctItems(currentIsMirrored)
              incorrect == incorrectItems(currentIsMirrored)
          IN  /\ isMirrored' = currentIsMirrored
              /\ lockedItems' = lockedItems \cup correct
              /\ revealedRules' =
                   validateRules(revealedRules, puzzle, lockedItems \cup correct)
              /\ itemPlacements' =
                   [i \in Items |->
                      IF i \in incorrect THEN NoZone ELSE itemPlacements[i]]
              /\ zoneOrder' =
                   [z \in Zones |->
                      SelectSeq(zoneOrder[z], LAMBDA x : x \notin incorrect)]
              /\ lastOp' = [Op("validatePuzzle", 0)
                              EXCEPT !.correct = correct,
                                     !.incorrect = incorrect,
                                     !.isMirrored = currentIsMirrored,
                                     !.crystallized =
                                       isOrientationCrystallized(
                                         puzzle, lockedItems)]
  /\ UNCHANGED props

\* Variant: a validation locks every placed item.
validatePuzzleLocksPlaced ==
  /\ IF isCompleted
     THEN /\ UNCHANGED << lockedItems, revealedRules, isMirrored >>
          /\ lastOp' = Op("validatePuzzle", 0)
     ELSE LET currentIsMirrored == resolvedMirrored
              correct == correctItems(currentIsMirrored)
              incorrect == incorrectItems(currentIsMirrored)
          IN  /\ isMirrored' = currentIsMirrored
              /\ lockedItems' = lockedItems \cup correct \cup incorrect
              /\ revealedRules' =
                   validateRules(revealedRules, puzzle, lockedItems \cup correct)
              /\ lastOp' = [Op("validatePuzzle", 0)
                              EXCEPT !.correct = correct,
                                     !.incorrect = incorrect,
                                     !.isMirrored = currentIsMirrored,
                                     !.crystallized =
                                       isOrientationCrystallized(
                                         puzzle, lockedItems)]
  /\ UNCHANGED << itemPlacements, zoneOrder, props >>

validatePuzzle ==
  /\ IF isCompleted
     THEN /\ UNCHANGED << lockedItems, revealedRules, isMirrored >>
          /\ lastOp' = Op("validatePuzzle", 0)
     ELSE LET currentIsMirrored == resolvedMirrored
              correct == correctItems(currentIsMirrored)
              incorrect == incorrectItems(currentIsMirrored)
          IN  /\ isMirrored' = currentIsMirrored
              /\ lockedItems' = lockedItems \cup correct
              /\ revealedRules' =
                   validateRules(revealedRules, puzzle, lockedItems \cup correct)
              /\ lastOp' = [Op("validatePuzzle", 0)
                              EXCEPT !.correct = correct,
                                     !.incorrect = incorrect,
                                     !.isMirrored = currentIsMirrored,
                                     !.crystallized =
                                       isOrientationCrystallized(
                                         puzzle, lockedItems)]
  /\ UNCHANGED << itemPlacements, zoneOrder, props >>

(***************************************************************************)
(* Solution reveal                                                         *)
(***************************************************************************)

\* Ids of the items whose canonical zone is `zone`, in puzzle order
\* (what puzzleData.items.forEach(... orders.get(item.zone).push(item.id))
\* builds).
canonicalOrder(p, zone) ==
  SelectSeq([i \in Items |-> i], LAMBDA i : ItemZone(p, i) = zone)

canonicalPlacements(p) == [i \in Items |-> ItemZone(p, i)]

canonicalOrders(p) == [z \in Zones |-> canonicalOrder(p, z)]

autoPlaceAllItems ==
  /\ itemPlacements' = canonicalPlacements(puzzle)
  /\ zoneOrder' = canonicalOrders(puzzle)
  /\ lockedItems' = Items
  /\ revealedRules' = AllRules
  /\ isMirrored' = FALSE
  /\ lastOp' = Op("autoPlaceAllItems", 0)
  /\ UNCHANGED props

(***************************************************************************)
(* Hint Resolver                                                           *)
(***************************************************************************)

\* Variant: items placed in outside are eligible too.
placedNotLockedAnywhere ==
  {i \in Items : itemPlacements[i] # NoZone /\ i \notin lockedItems}

placedNotLocked ==
  {i \in Items :
     /\ itemPlacements[i] # NoZone
     /\ itemPlacements[i] # "outside"
     /\ i \notin lockedItems}

incorrectPlaced ==
  {i \in placedNotLocked :
     itemPlacements[i] # getExpectedZone(ItemZone(puzzle, i), isMirrored)}

\* Variant: no preference for incorrectly placed items.
hintPoolAny == placedNotLocked

hintPool == IF incorrectPlaced # {} THEN incorrectPlaced ELSE placedNotLocked

\* pool[0]: the filters keep puzzle order, ids are numbered in puzzle order
hintTarget == CHOOSE i \in hintPool : \A j \in hintPool : i <= j

revealOneHint ==
  /\ IF isCompleted \/ placedNotLocked = {}
     THEN /\ UNCHANGED store
          /\ lastOp' = Op("revealOneHint", 0)
     ELSE LET itemId == hintTarget
              expectedZone == getExpectedZone(ItemZone(puzzle, itemId), isMirrored)
          IN  /\ itemPlacements' = [itemPlacements EXCEPT ![itemId] = expectedZone]
              /\ zoneOrder' =
                   placeInOrder(zoneOrder, itemId, expectedZone, AnchorUndefined)
              /\ lockedItems' = lockedItems \cup {itemId}
              /\ revealedRules' =
                   countedRules(revealedRules, puzzle, lockedItems \cup {itemId})
              /\ lastOp' = [Op("revealOneHint", itemId)
                              EXCEPT !.hint = itemId]
              /\ UNCHANGED isMirrored
  /\ UNCHANGED props

(***************************************************************************)
(* Drop router                                                             *)
(***************************************************************************)

\* The anchor handleDrop computes for a drop on a zone, and whether the
\* resolver was called for it.
resolveAnchorAtStart(mousePosition, element, activeId) ==
  IF mousePosition.tracked \/ element.mounted
  THEN LET dropPoint == IF mousePosition.tracked THEN mousePosition
                        ELSE ZoneCenter
       IN  [resolved |-> TRUE,
            result |-> calculateInsertPosition(element, dropPoint.x,
                                               dropPoint.y, activeId)]
  ELSE [resolved |-> FALSE, result |-> AnchorNull]

resolveAnchor(mousePosition, element, activeId) ==
  IF mousePosition.tracked \/ element.mounted
  THEN LET dropPoint == IF mousePosition.tracked THEN mousePosition
                        ELSE ZoneCenter
       IN  [resolved |-> TRUE,
            result |-> calculateInsertPosition(element, dropPoint.x,
                                               dropPoint.y, activeId)]
  ELSE [resolved |-> FALSE, result |-> AnchorUndefined]

\* Variant: a drop on the unplaced pool is ignored.
handleDropIgnoresPool(activeId, over, mousePosition, element) ==
  IF over = "word-pool"
  THEN /\ UNCHANGED << store, props >>
       /\ lastOp' = Op("handleDrop", activeId)
       /\ gesture' = [NoGesture EXCEPT !.handled = TRUE, !.id = activeId,
                                       !.over = over,
                                       !.mounted = element.mounted]
  ELSE IF over \notin Zones
  THEN /\ removeItem(activeId)
       /\ gesture' = [NoGesture EXCEPT !.handled = TRUE, !.id = activeId,
                                       !.over = over,
                                       !.mounted = element.mounted,
                                       !.calls = << Call("removeItem", activeId,
                                                         NoZone, AnchorUndefined) >>]
  ELSE LET insertAfterId == resolveAnchor(mousePosition, element, activeId)
       IN  /\ placeItem(activeId, over, insertAfterId.result)
           /\ gesture' = [handled |-> TRUE, id |-> activeId, over |-> over,
                          mounted |-> element.mounted,
                          resolved |-> insertAfterId.resolved,
                          result |-> insertAfterId.result,
                          calls |-> << Call("placeItem", activeId, over,
                                            insertAfterId.result) >>]

\* Variant: the resolver's answer is dropped and the item appended.
handleDropAlwaysAppends(activeId, over, mousePosition, element) ==
  IF over \notin Zones
  THEN /\ removeItem(activeId)
       /\ gesture' = [NoGesture EXCEPT !.handled = TRUE, !.id = activeId,
                                       !.over = over,
                                       !.mounted = element.mounted,
                                       !.calls = << Call("removeItem", activeId,
                                                         NoZone, AnchorUndefined) >>]
  ELSE LET insertAfterId == resolveAnchor(mousePosition, element, activeId)
       IN  /\ placeItem(activeId, over, AnchorUndefined)
           /\ gesture' = [handled |-> TRUE, id |-> activeId, over |-> over,
                          mounted |-> element.mounted,
                          resolved |-> insertAfterId.resolved,
                          result |-> insertAfterId.result,
                          calls |-> << Call("placeItem", activeId, over,
                                            AnchorUndefined) >>]

handleDrop(activeId, over, mousePosition, element) ==
  IF over \notin Zones
  THEN /\ removeItem(activeId)
       /\ gesture' = [NoGesture EXCEPT !.handled = TRUE, !.id = activeId,
                                       !.over = over,
                                       !.mounted = element.mounted,
                                       !.calls = << Call("removeItem", activeId,
                                                         NoZone, AnchorUndefined) >>]
  ELSE LET insertAfterId == resolveAnchor(mousePosition, element, activeId)
       IN  /\ placeItem(activeId, over, insertAfterId.result)
           /\ gesture' = [handled |-> TRUE, id |-> activeId, over |-> over,
                          mounted |-> element.mounted,
                          resolved |-> insertAfterId.resolved,
                          result |-> insertAfterId.result,
                          calls |-> << Call("placeItem", activeId, over,
                                            insertAfterId.result) >>]

(***************************************************************************)
(* Rendering: the state updates of a handler are queued, and applied when  *)
(* the root renders                                                        *)
(***************************************************************************)

\* Calls of placeItem and removeItem made before the root renders.
MaxQueuedCalls == 2

\* One queued update: the state it belongs to and the call that queued it.
Update(state, call) == [state |-> state, call |-> call]

\* The updater that a call passed to setItemPlacements.
placementsUpdater(prev, call) ==
  IF call.fn = "placeItem"
  THEN [prev EXCEPT ![call.id] = call.zone]
  ELSE [prev EXCEPT ![call.id] = NoZone]

\* The updater that a call passed to setZoneOrder.
orderUpdater(prev, call) ==
  IF call.fn = "placeItem"
  THEN placeInOrder(prev, call.id, call.zone, call.anchor)
  ELSE removeFromOrder(prev, call.id)

\* The queued updaters of one state, applied in the order they were queued.
RECURSIVE reducePlacements(_, _)
reducePlacements(prev, queue) ==
  IF queue = << >>
  THEN prev
  ELSE reducePlacements(
         IF Head(queue).state = "itemPlacements"
         THEN placementsUpdater(prev, Head(queue).call)
         ELSE prev,
         Tail(queue))

RECURSIVE reduceOrder(_, _)
reduceOrder(prev, queue) ==
  IF queue = << >>
  THEN prev
  ELSE reduceOrder(
         IF Head(queue).state = "zoneOrder"
         THEN orderUpdater(prev, Head(queue).call)
         ELSE prev,
         Tail(queue))

\* placeItem as the handler runs it: it reads isCompleted and queues its
\* two updates; the rendered state does not change.
queuePlaceItem(itemId, targetZone, insertAfterId) ==
  /\ updateQueue' =
       IF isCompleted
       THEN updateQueue
       ELSE LET call == Call("placeItem", itemId, targetZone, insertAfterId)
            IN  updateQueue \o << Update("itemPlacements", call),
                                  Update("zoneOrder", call) >>
  /\ lastOp' = Op("placeItem", itemId)
  /\ UNCHANGED << store, props >>

queueRemoveItem(itemId) ==
  /\ updateQueue' =
       IF isCompleted
       THEN updateQueue
       ELSE LET call == Call("removeItem", itemId, NoZone, AnchorUndefined)
            IN  updateQueue \o << Update("itemPlacements", call),
                                  Update("zoneOrder", call) >>
  /\ lastOp' = Op("removeItem", itemId)
  /\ UNCHANGED << store, props >>

\* Variant: every update is rendered on its own (no batching).
renderEachUpdate ==
  /\ updateQueue # << >>
  /\ itemPlacements' = reducePlacements(itemPlacements, << Head(updateQueue) >>)
  /\ zoneOrder' = reduceOrder(zoneOrder, << Head(updateQueue) >>)
  /\ updateQueue' = Tail(updateQueue)
  /\ lastOp' = Op("render", 1)
  /\ UNCHANGED << lockedItems, revealedRules, isMirrored, props >>

\* The root created by createRoot renders: every queued update is applied
\* and the hook returns the new state. lastOp.id is the number of updates.
render ==
  /\ updateQueue # << >>
  /\ itemPlacements' = reducePlacements(itemPlacements, updateQueue)
  /\ zoneOrder' = reduceOrder(zoneOrder, updateQueue)
  /\ updateQueue' = << >>
  /\ lastOp' = Op("render", Len(updateQueue))
  /\ UNCHANGED << lockedItems, revealedRules, isMirrored, props >>

(***************************************************************************)
(* The page's check button (handlePrimaryButtonClick, handleCheckPuzzle)   *)
(***************************************************************************)

MAX_CHECK_ATTEMPTS == 5

\* Clicks of the check button in one session.
MaxClicks == 7

totalItems == NumItems

hasPlacedItems == \E i \in Items : itemPlacements[i] # NoZone

isPuzzleComplete == lockedItems = Items \/ isCompleted

\* handleCheckPuzzle: the attempt is counted, validatePuzzle is called, and
\* the game is over when the attempts are used up and the count of locked
\* items, as the handler computes it, is not the number of items.
handleCheckPuzzle ==
  IF isPuzzleComplete \/ appState.isGameOver
  THEN /\ lastOp' = Op("handleCheckPuzzle", 0)
       /\ UNCHANGED << store, props, appState >>
  ELSE /\ validatePuzzle
       /\ LET nextAttempts == appState.checkAttempts + 1
              prevLockedCount == Cardinality(lockedItems)
              correctLockedAfter ==
                prevLockedCount + Cardinality(lastOp'.correct)
              isCurrentlyComplete == correctLockedAfter = totalItems
              over == ~isCurrentlyComplete /\ nextAttempts >= MAX_CHECK_ATTEMPTS
          IN  appState' = [checkAttempts |-> nextAttempts,
                           canCheckPuzzle |-> FALSE,
                           isGameOver |-> over]

\* handlePrimaryButtonClick: on a win the button shares the result.
handlePrimaryButtonClick ==
  IF isPuzzleComplete /\ ~appState.isGameOver
  THEN /\ lastOp' = Op("handleShareResult", 0)
       /\ UNCHANGED << store, props, appState >>
  ELSE IF appState.isGameOver
  THEN /\ lastOp' = Op("handlePrimaryButtonClick", 0)
       /\ UNCHANGED << store, props, appState >>
  ELSE handleCheckPuzzle

\* The timer that handleCheckPuzzle starts when the game is not over.
enableCheck ==
  /\ ~appState.canCheckPuzzle
  /\ ~appState.isGameOver
  /\ appState' = [appState EXCEPT !.canCheckPuzzle = TRUE]
  /\ UNCHANGED << store, props, lastOp >>

(***************************************************************************)
(* Puzzle load: the reset / restore effect of the hook                     *)
(***************************************************************************)

\* Variant: a puzzle that is not completed keeps the orientation of the
\* puzzle before it.
resetEffectKeepsOrientation(p, completed, ls) ==
  IF ~completed
  THEN /\ lockedItems' = {}
       /\ itemPlacements' = EmptyPlacements
       /\ zoneOrder' = EmptyOrder
       /\ revealedRules' = NoRules
       /\ isMirrored' = isMirrored
  ELSE IF ls.present
  THEN /\ lockedItems' = ls.lockedItems
       /\ itemPlacements' = ls.itemPlacements
       /\ zoneOrder' = ls.zoneOrder
       /\ revealedRules' = ls.revealedRules
       /\ isMirrored' = calculateIsMirrored(p, ls.itemPlacements)
  ELSE /\ itemPlacements' = canonicalPlacements(p)
       /\ zoneOrder' = canonicalOrders(p)
       /\ lockedItems' = Items
       /\ revealedRules' = AllRules
       /\ isMirrored' = FALSE

\* The effect body, run for the props (p, completed, ls).
resetEffect(p, completed, ls) ==
  IF ~completed
  THEN /\ lockedItems' = {}
       /\ itemPlacements' = EmptyPlacements
       /\ zoneOrder' = EmptyOrder
       /\ revealedRules' = NoRules
       /\ isMirrored' = FALSE
  ELSE IF ls.present
  THEN /\ lockedItems' = ls.lockedItems
       /\ itemPlacements' = ls.itemPlacements
       /\ zoneOrder' = ls.zoneOrder
       /\ revealedRules' = ls.revealedRules
       \* the stored snapshot has no isMirrored field: it is recalculated
       /\ isMirrored' = calculateIsMirrored(p, ls.itemPlacements)
  ELSE /\ itemPlacements' = canonicalPlacements(p)
       /\ zoneOrder' = canonicalOrders(p)
       /\ lockedItems' = Items
       /\ revealedRules' = AllRules
       /\ isMirrored' = FALSE

\* A puzzle is loaded that has no stored snapshot: either it was never
\* completed, or it was completed before snapshots were stored.
loadPuzzle(p, completed) ==
  /\ puzzle' = p
  /\ isCompleted' = completed
  /\ lockedState' = NoLockedState
  /\ resetEffect(p, completed, NoLockedState)
  /\ lastOp' = Op("loadPuzzle", 0)

\* The application records the completion of the puzzle (every item
\* locked): it stores the snapshot, after which the hook receives
\* isCompleted = true and the stored snapshot, and its effect runs.
recordPuzzleCompletion ==
  /\ lockedItems = Items
  /\ ~isCompleted
  /\ LET ls == [present |-> TRUE, itemPlacements |-> itemPlacements,
                zoneOrder |-> zoneOrder, lockedItems |-> lockedItems,
                revealedRules |-> revealedRules]
     IN  /\ lockedState' = ls
         /\ isCompleted' = TRUE
         /\ resetEffect(puzzle, TRUE, ls)
  /\ lastOp' = Op("recordPuzzleCompletion", 0)
  /\ UNCHANGED puzzle

\* The completed puzzle is opened again: the hook is mounted with the
\* stored snapshot.
resumePuzzle ==
  /\ isCompleted
  /\ lockedState.present
  /\ resetEffect(puzzle, TRUE, lockedState)
  /\ lastOp' = Op("resumePuzzle", 0)
  /\ UNCHANGED props

(***************************************************************************)
(* Specification of the engine: every operation of the hook                *)
(***************************************************************************)

PlaceItem ==
  \E i \in Items, z \in Zones, a \in Anchors :
    placeItem(i, z, a) /\ UNCHANGED << history, layout, updateQueue, appState >>

RemoveItem == \E i \in Items : removeItem(i) /\ UNCHANGED << history, layout, updateQueue, appState >>

ValidatePuzzle == validatePuzzle /\ UNCHANGED << history, layout, updateQueue, appState >>

RevealOneHint == revealOneHint /\ UNCHANGED << history, layout, updateQueue, appState >>

AutoPlaceAllItems == autoPlaceAllItems /\ UNCHANGED << history, layout, updateQueue, appState >>

LoadPuzzle ==
  \E p \in PuzzleIds, c \in BOOLEAN : loadPuzzle(p, c) /\ UNCHANGED << history, layout, updateQueue, appState >>

RecordPuzzleCompletion == recordPuzzleCompletion /\ UNCHANGED << history, layout, updateQueue, appState >>

ResumePuzzle == resumePuzzle /\ UNCHANGED << history, layout, updateQueue, appState >>

Next ==
  \/ PlaceItem
  \/ RemoveItem
  \/ ValidatePuzzle
  \/ RevealOneHint
  \/ AutoPlaceAllItems
  \/ LoadPuzzle
  \/ RecordPuzzleCompletion
  \/ ResumePuzzle

Spec == Init /\ [][Next]_vars

(***************************************************************************)
(* Specification of the placement store alone, with an observer that       *)
(* records each call together with the store it found                      *)
(***************************************************************************)

ObservedPlaceItem ==
  \E i \in Items, z \in Zones, a \in Anchors :
    /\ placeItem(i, z, a)
    /\ history' =
         [name |-> "placeItem", id |-> i, zone |-> z, anchor |-> a,
          before |-> StoreView(itemPlacements, zoneOrder),
          origin |-> StoreView(itemPlacements, zoneOrder),
          repeated |-> /\ history.name = "placeItem"
                       /\ history.id = i
                       /\ history.zone = z
                       /\ history.anchor = a,
          chained |-> FALSE]
    /\ UNCHANGED << layout, updateQueue, appState >>

ObservedRemoveItem ==
  \E i \in Items :
    /\ removeItem(i)
    /\ LET follows == history.name = "placeItem" /\ history.id = i
       IN  history' =
             [name |-> "removeItem", id |-> i, zone |-> NoZone,
              anchor |-> AnchorUndefined,
              before |-> StoreView(itemPlacements, zoneOrder),
              origin |-> IF follows THEN history.before
                         ELSE StoreView(itemPlacements, zoneOrder),
              repeated |-> FALSE,
              chained |-> follows]
    /\ UNCHANGED << layout, updateQueue, appState >>

ObservedLoadPuzzle ==
  \E p \in PuzzleIds, c \in BOOLEAN :
    /\ loadPuzzle(p, c)
    /\ history' = NoHistory
    /\ UNCHANGED << layout, updateQueue, appState >>

NextStore ==
  \/ ObservedPlaceItem
  \/ ObservedRemoveItem
  \/ ObservedLoadPuzzle

SpecStore == Init /\ [][NextStore]_vars

(***************************************************************************)
(* Specification of the insertion resolver: a zone is rendered card by     *)
(* card, then a drop on it is resolved                                     *)
(***************************************************************************)

Overlap(a, b) ==
  /\ a.left <= b.right /\ b.left <= a.right
  /\ a.top <= b.bottom /\ b.top <= a.bottom

\* The zone element appears in the document, without cards.
MountZone ==
  /\ ~zoneElement.mounted
  /\ ~lastDrop.called
  /\ zoneElement' = [mounted |-> TRUE, cards |-> << >>]
  /\ UNCHANGED << lastDrop, gesture, store, props, lastOp, history, updateQueue, appState >>

\* One more card is rendered in the zone; cards do not overlap. The card
\* ids are numbered in document order.
RenderCard ==
  \E centerX \in CenterXs, halfWidth \in HalfWidths, band \in RowBands :
    LET card == CardRect(Len(zoneElement.cards) + 1, centerX, halfWidth, band)
    IN  /\ zoneElement.mounted
        /\ ~lastDrop.called
        /\ Len(zoneElement.cards) < NumCards
        /\ \A k \in 1..Len(zoneElement.cards) :
             ~Overlap(zoneElement.cards[k], card)
        /\ zoneElement' = [zoneElement EXCEPT !.cards = Append(@, card)]
        /\ UNCHANGED << lastDrop, gesture, store, props, lastOp, history, updateQueue, appState >>

\* A card (one of the zone's, or one from elsewhere: 0) is dropped at (x, y).
ResolveDrop ==
  \E x \in DropXs, y \in DropYs,
     draggedCardId \in 0..Len(zoneElement.cards) :
    /\ ~lastDrop.called
    /\ lastDrop' =
         [called |-> TRUE, x |-> x, y |-> y, draggedCardId |-> draggedCardId,
          result |-> calculateInsertPosition(zoneElement, x, y, draggedCardId)]
    /\ UNCHANGED << zoneElement, gesture, store, props, lastOp, history, updateQueue, appState >>

NextResolver ==
  \/ MountZone
  \/ RenderCard
  \/ ResolveDrop

\* The resolver does not read the puzzle: one puzzle is enough.
InitResolver == Init /\ puzzle = 1

SpecResolver == InitResolver /\ [][NextResolver]_vars

(***************************************************************************)
(* Specification of the drop router: gestures end over a target, with the  *)
(* target zone rendered from its order (without the dragged card) or not   *)
(* in the document; validations and puzzle loads in between                *)
(***************************************************************************)

HandleDrop ==
  \E activeId \in Items, over \in Overs, mousePosition \in MousePositions,
     mounted \in BOOLEAN, perRow \in RowLengths :
    LET rendered ==
          IF over \in Zones THEN Without(zoneOrder[over], activeId) ELSE << >>
        element ==
          IF mounted THEN zoneLayout(rendered, perRow) ELSE NoElement
    IN  \* inputs that cannot change what handleDrop does are not varied:
        \* position and layout for a target that is no zone, the position
        \* for a zone that is not in the document, the wrapping of fewer
        \* than two cards, the second row where there is none
        /\ over \notin Zones => (~mousePosition.tracked /\ ~mounted)
        /\ (mousePosition.tracked /\ ~mounted)
             => (mousePosition.x = 5 /\ mousePosition.y = 10)
        /\ (~mounted \/ Len(rendered) < 2) => perRow = 3
        /\ (mousePosition.tracked /\ perRow = 3) => mousePosition.y = 10
        /\ handleDrop(activeId, over, mousePosition, element)
        /\ UNCHANGED << history, zoneElement, lastDrop, updateQueue, appState >>

ValidateBetweenDrops ==
  /\ validatePuzzle
  /\ gesture' = NoGesture
  /\ UNCHANGED << history, zoneElement, lastDrop, updateQueue, appState >>

\* The puzzle is left and opened again, completed or not.
LoadBetweenDrops ==
  \E c \in BOOLEAN :
    /\ loadPuzzle(puzzle, c)
    /\ gesture' = NoGesture
    /\ UNCHANGED << history, zoneElement, lastDrop, updateQueue, appState >>

NextRouter ==
  \/ HandleDrop
  \/ ValidateBetweenDrops
  \/ LoadBetweenDrops

\* The router does not read the puzzle: one puzzle is enough.
InitRouter == Init /\ puzzle = 1

SpecRouter == InitRouter /\ [][NextRouter]_vars

\* The placement store as the rendered state shows it: handlers queue
\* their updates, the root renders them.
BatchAnchors == {AnchorUndefined, AnchorNull}

QueuePlaceItem ==
  \E i \in Items, z \in Zones, a \in BatchAnchors :
    /\ Len(updateQueue) < 2 * MaxQueuedCalls
    /\ queuePlaceItem(i, z, a)
    /\ UNCHANGED << history, layout, appState >>

QueueRemoveItem ==
  \E i \in Items :
    /\ Len(updateQueue) < 2 * MaxQueuedCalls
    /\ queueRemoveItem(i)
    /\ UNCHANGED << history, layout, appState >>

Render == render /\ UNCHANGED << history, layout, appState >>

NextRender ==
  \/ QueuePlaceItem
  \/ QueueRemoveItem
  \/ Render

InitRender == Init /\ puzzle = 1

SpecRender == InitRender /\ [][NextRender]_vars

\* One session of the page on one puzzle: cards are placed and removed, and
\* the check button is clicked while it is enabled.
ClickPrimaryButton ==
  /\ hasPlacedItems
  /\ appState.canCheckPuzzle
  /\ ~appState.isGameOver
  /\ appState.checkAttempts < MaxClicks
  /\ handlePrimaryButtonClick
  /\ UNCHANGED << history, layout, updateQueue >>

EnableCheck == enableCheck /\ UNCHANGED << history, layout, updateQueue >>

NextGame ==
  \/ PlaceItem
  \/ RemoveItem
  \/ ClickPrimaryButton
  \/ EnableCheck

InitGame == Init /\ puzzle = 1

SpecGame == InitGame /\ [][NextGame]_vars

(***************************************************************************)
(* Properties                                                              *)
(***************************************************************************)

\* ids occurring in a zone order
Members(order) == {order[k] : k \in 1..Len(order)}

\* the keys of the placement Map
PlacedItems == {i \in Items : itemPlacements[i] # NoZone}

NoDuplicates(order) ==
  \A j, k \in 1..Len(order) : order[j] = order[k] => j = k

\* the operations of one session (everything but a puzzle load)
StoreCalls == {"placeItem", "removeItem"}

\* C1: mutual exclusion -- every item id is in at most one zone order, and
\* the zone whose order contains it is the zone the placement mapping
\* records for it.
MutualExclusion ==
  \A i \in Items :
    /\ \A y, z \in Zones :
         (i \in Members(zoneOrder[y]) /\ i \in Members(zoneOrder[z])) => y = z
    /\ \A z \in Zones :
         i \in Members(zoneOrder[z]) => itemPlacements[i] = z

\* C1 witness: after a placeItem call two items sit in two different zones.
MutualExclusionWitness ==
  /\ lastOp.name = "placeItem"
  /\ ~isCompleted
  /\ \E i, j \in Items :
       /\ itemPlacements[i] = "left" /\ i \in Members(zoneOrder["left"])
       /\ itemPlacements[j] = "right" /\ j \in Members(zoneOrder["right"])

\* C2: the ids in the four zone orders are exactly the keys of the placement
\* mapping, in every reachable state.
OrderMatchesMapping ==
  UNION {Members(zoneOrder[z]) : z \in Zones} = PlacedItems

\* C2 witness: an item was removed while another one stays placed.
OrderMatchesMappingWitness ==
  /\ lastOp.name = "removeItem"
  /\ itemPlacements[lastOp.id] = NoZone
  /\ PlacedItems # {}
  /\ lockedItems # {}

\* C3: a placeItem or removeItem call for a locked id changes neither the
\* placement mapping nor any zone order.
LockImmutability ==
  [][(lastOp'.name \in StoreCalls /\ lastOp'.id \in lockedItems)
       => UNCHANGED << itemPlacements, zoneOrder >>]_vars

\* C4: with A canonical left and B canonical right, validating the board
\* { A at right, B at left } locks both and reports mirrored; validating
\* again after a third item C (canonical left) was placed at left classifies
\* C as incorrect, does not lock it, and still reports mirrored.
CrystallizationScenario ==
  [][(lastOp'.name = "validatePuzzle" /\ ~isCompleted) =>
     \A A, B, C \in Items :
       ( /\ A # C
         /\ ItemZone(puzzle, A) = "left"
         /\ ItemZone(puzzle, B) = "right"
         /\ ItemZone(puzzle, C) = "left"
         /\ itemPlacements[A] = "right"
         /\ itemPlacements[B] = "left" )
       => /\ ( /\ lockedItems = {}
               /\ PlacedItems = {A, B} )
             => /\ {A, B} \subseteq lockedItems'
                /\ lastOp'.isMirrored
                /\ isMirrored'
          /\ ( /\ {A, B} \subseteq lockedItems
               /\ isMirrored
               /\ C \notin lockedItems
               /\ itemPlacements[C] = "left" )
             => /\ C \in lastOp'.incorrect
                /\ C \notin lastOp'.correct
                /\ C \notin lockedItems'
                /\ lastOp'.isMirrored
                /\ isMirrored']_vars

\* C4 witness: the second validate of the scenario has just returned.
CrystallizationScenarioWitness ==
  /\ lastOp.name = "validatePuzzle"
  /\ lastOp.isMirrored
  /\ \E A, B, C \in Items :
       /\ A # C
       /\ ItemZone(puzzle, A) = "left"
       /\ ItemZone(puzzle, B) = "right"
       /\ ItemZone(puzzle, C) = "left"
       /\ itemPlacements[A] = "right"
       /\ itemPlacements[B] = "left"
       /\ itemPlacements[C] = "left"
       /\ lockedItems = {A, B}
       /\ lastOp.incorrect = {C}
       /\ lastOp.correct = {A, B}

\* C5: once a locked item has an exclusive canonical zone, placeItem,
\* removeItem, validate and revealHint never change the orientation, and
\* the orientation stays crystallized.
GestureCalls == {"placeItem", "removeItem", "validatePuzzle", "revealOneHint"}

CrystallizedIsFrozen ==
  [][(isOrientationCrystallized(puzzle, lockedItems)
        /\ lastOp'.name \in GestureCalls)
       => /\ isMirrored' = isMirrored
          /\ isOrientationCrystallized(puzzle', lockedItems')]_vars

\* C5 witness: a crystallized mirrored orientation survives a validate call
\* on a board whose placements alone would now read as standard.
CrystallizedIsFrozenWitness ==
  /\ lastOp.name = "validatePuzzle"
  /\ ~isCompleted
  /\ isOrientationCrystallized(puzzle, lockedItems)
  /\ isMirrored
  /\ ~calculateIsMirrored(puzzle, itemPlacements)

\* C6: after a validate or revealHint call, three locked items of canonical
\* zone left (right) imply that the left (right) reveal flag is true.
RevealThresholdReached ==
  lastOp.name \in {"validatePuzzle", "revealOneHint"}
    => /\ leftCount(puzzle, lockedItems) >= RevealThreshold => revealedRules.left
       /\ rightCount(puzzle, lockedItems) >= RevealThreshold => revealedRules.right

\* C6 witness: a hint locks the third left item, two of the three locked
\* left items sit in the right zone, and the left flag is set.
RevealThresholdReachedWitness ==
  /\ lastOp.name = "revealOneHint"
  /\ lastOp.hint # 0
  /\ leftCount(puzzle, lockedItems) >= RevealThreshold
  /\ revealedRules.left
  /\ \E i \in lockedItems :
       ItemZone(puzzle, i) = "left" /\ itemPlacements[i] = "right"

\* C7: within a session no call sets a reveal flag back to false.
SessionCalls == GestureCalls \cup {"autoPlaceAllItems"}

RevealFlagsMonotone ==
  [][lastOp'.name \in SessionCalls
       => /\ revealedRules.left => revealedRules'.left
          /\ revealedRules.right => revealedRules'.right]_vars

\* C7 witness: a flag is true although fewer than three items of its
\* category exist, and a validate call has just kept it.
RevealFlagsMonotoneWitness ==
  /\ lastOp.name = "validatePuzzle"
  /\ ~isCompleted
  /\ revealedRules.right
  /\ rightCount(puzzle, Items) < RevealThreshold

\* The store as the observer sees it now.
CurrentView == StoreView(itemPlacements, zoneOrder)

\* C8 (as claimed): placeItem(id, zone) followed by removeItem(id) returns
\* the placement mapping and all four zone orders to what they were before
\* the placeItem call, for every store state, id and zone.
RoundTrip ==
  (history.name = "removeItem" /\ history.chained)
    => CurrentView = history.origin

\* C8 (amended): the round trip restores the store when the item was not
\* placed before the placeItem call.
RoundTripFromUnplaced ==
  ( /\ history.name = "removeItem"
    /\ history.chained
    /\ history.origin.itemPlacements[history.id] = NoZone )
    => CurrentView = history.origin

\* C8 witness: a round trip of an unplaced item over a store that holds
\* other items, in a store that is not frozen.
RoundTripFromUnplacedWitness ==
  /\ history.name = "removeItem"
  /\ history.chained
  /\ ~isCompleted
  /\ history.origin.itemPlacements[history.id] = NoZone
  /\ history.before.itemPlacements[history.id] # NoZone
  /\ \E z \in Zones : Len(history.before.zoneOrder[z]) >= 3
  /\ CurrentView = history.origin

\* C9: placing an item that is already in the target zone leaves the ids of
\* every zone order unchanged and duplicates nothing; repeating the very
\* call that put the item there leaves every zone order unchanged.
IdempotentReplacement ==
  /\ ( /\ history.name = "placeItem"
       /\ history.before.itemPlacements[history.id] = history.zone )
       => \A z \in Zones :
            /\ Members(zoneOrder[z]) = Members(history.before.zoneOrder[z])
            /\ Len(zoneOrder[z]) = Len(history.before.zoneOrder[z])
            /\ NoDuplicates(zoneOrder[z])
  /\ (history.name = "placeItem" /\ history.repeated)
       => zoneOrder = history.before.zoneOrder

\* C9 witness: a placeItem call with a concrete anchor was repeated on a
\* zone that holds three items.
IdempotentReplacementWitness ==
  /\ history.name = "placeItem"
  /\ history.repeated
  /\ ~isCompleted
  /\ history.anchor.kind = "id"
  /\ history.anchor.id # history.id
  /\ Len(zoneOrder[history.zone]) >= 3
  /\ history.before.itemPlacements[history.id] = history.zone

\* C10: placeItem puts the item first for anchor null, last for anchor
\* undefined, immediately after the anchor for an anchor id that is in the
\* target order, and keeps the relative order of the other ids of the zone.
InsertionPosition ==
  (history.name = "placeItem" /\ ~isCompleted) =>
    LET now == zoneOrder[history.zone]
        others == Without(history.before.zoneOrder[history.zone], history.id)
        a == history.anchor
    IN  /\ Without(now, history.id) = others
        /\ Len(now) = Len(others) + 1
        /\ a.kind = "null" => now[1] = history.id
        /\ a.kind = "undefined" => now[Len(now)] = history.id
        /\ (a.kind = "id" /\ a.id \in Members(others))
             => \E k \in 1..(Len(now) - 1) :
                  now[k] = a.id /\ now[k + 1] = history.id

\* C10 witness: an item was inserted after the first of two other items.
InsertionPositionWitness ==
  /\ history.name = "placeItem"
  /\ ~isCompleted
  /\ history.anchor.kind = "id"
  /\ Len(zoneOrder[history.zone]) >= 3
  /\ zoneOrder[history.zone][1] = history.anchor.id
  /\ zoneOrder[history.zone][2] = history.id
  /\ history.before.itemPlacements[history.id] # history.zone

\* C11: a placeItem call whose concrete anchor id is not in the target
\* zone's order (once the placed item is removed from it) appends the item
\* at the end of that order.
StaleAnchorAppends ==
  ( /\ history.name = "placeItem"
    /\ ~isCompleted
    /\ history.anchor.kind = "id"
    /\ history.anchor.id \notin
         Members(Without(history.before.zoneOrder[history.zone], history.id)) )
    => LET now == zoneOrder[history.zone]
       IN  /\ Len(now) >= 1
           /\ now[Len(now)] = history.id

\* C12: on a frozen store placeItem, removeItem, validate and revealHint
\* leave the mapping, the zone orders, the locked set, the reveal flags and
\* the orientation unchanged; validate returns two empty lists and revealHint
\* returns null.
FrozenStore ==
  [][(isCompleted /\ lastOp'.name \in GestureCalls)
       => /\ UNCHANGED store
          /\ lastOp'.correct = {}
          /\ lastOp'.incorrect = {}
          /\ lastOp'.hint = 0]_vars

\* C12 witness: validate has returned on a frozen store that holds placed,
\* locked items.
FrozenStoreWitness ==
  /\ isCompleted
  /\ lastOp.name = "validatePuzzle"
  /\ lastOp.correct = {}
  /\ PlacedItems = Items
  /\ lockedItems = Items
  /\ lockedState.present

\* The expected zone as the specification words it: the canonical zone,
\* left and right exchanged under a mirrored orientation.
Opposite(zone) ==
  CASE zone = "left" -> "right"
    [] zone = "right" -> "left"
    [] OTHER -> zone

ExpectedZone(i, mirrored) ==
  IF mirrored /\ ItemZone(puzzle, i) \in {"left", "right"}
  THEN Opposite(ItemZone(puzzle, i))
  ELSE ItemZone(puzzle, i)

\* C13: validate (on a store that is not frozen) puts every placed item in
\* exactly one of correct / incorrect, in correct exactly when its placed
\* zone is its expected zone under the orientation the call resolved; items
\* without a placement are in neither list.
ValidateClassifies ==
  (lastOp.name = "validatePuzzle" /\ ~isCompleted)
    => /\ lastOp.correct \cup lastOp.incorrect = PlacedItems
       /\ lastOp.correct \cap lastOp.incorrect = {}
       /\ \A i \in PlacedItems :
            i \in lastOp.correct
              <=> itemPlacements[i] = ExpectedZone(i, lastOp.isMirrored)

\* C13 witness: a mirrored validate with a correct item of canonical zone
\* both, an incorrect item and an unplaced item.
ValidateClassifiesWitness ==
  /\ lastOp.name = "validatePuzzle"
  /\ ~isCompleted
  /\ lastOp.isMirrored
  /\ \E i \in lastOp.correct : ItemZone(puzzle, i) = "both"
  /\ lastOp.incorrect # {}
  /\ PlacedItems # Items

\* C14: if a validate call leaves every puzzle item locked, both reveal
\* flags are true after that call.
AllLockedRevealsBoth ==
  (lastOp.name = "validatePuzzle" /\ lockedItems = Items)
    => revealedRules = AllRules

\* C15: the orientation detector answers mirrored exactly when more placed
\* exclusive items sit in the opposite exclusive zone than in their own.
PlacedInOwnZone ==
  {i \in Items :
     ItemZone(puzzle, i) \in {"left", "right"}
       /\ itemPlacements[i] = ItemZone(puzzle, i)}

PlacedInOppositeZone ==
  {i \in Items :
     ItemZone(puzzle, i) \in {"left", "right"}
       /\ itemPlacements[i] = Opposite(ItemZone(puzzle, i))}

DetectorCountsExclusive ==
  calculateIsMirrored(puzzle, itemPlacements)
    <=> Cardinality(PlacedInOppositeZone) > Cardinality(PlacedInOwnZone)

\* C15 witness: validate answered standard on a tie of one against one,
\* with a further exclusive item placed in both.
DetectorCountsExclusiveWitness ==
  /\ lastOp.name = "validatePuzzle"
  /\ ~isCompleted
  /\ ~lastOp.isMirrored
  /\ Cardinality(PlacedInOppositeZone) = 1
  /\ Cardinality(PlacedInOwnZone) = 1
  /\ \E i \in Items :
       ItemZone(puzzle, i) \in {"left", "right"} /\ itemPlacements[i] = "both"

\* The eligible pool of a hint, and its incorrectly placed members, as the
\* specification words them.
Eligible ==
  {i \in PlacedItems : itemPlacements[i] # "outside"} \ lockedItems

Misplaced == {i \in Eligible : itemPlacements[i] # ExpectedZone(i, isMirrored)}

\* C16: whenever the eligible pool holds an incorrectly placed item,
\* revealHint returns an incorrectly placed item, and of those the first in
\* puzzle order, whatever the zone orders are.
HintPrefersMisplaced ==
  [][(lastOp'.name = "revealOneHint" /\ ~isCompleted /\ Misplaced # {})
       => /\ lastOp'.hint \in Misplaced
          /\ \A j \in Misplaced : lastOp'.hint <= j]_vars

\* C16 witness: revealHint returned an item although an eligible, correctly
\* placed item precedes it in puzzle order and followed it in its zone order.
HintPrefersMisplacedWitness ==
  /\ lastOp.name = "revealOneHint"
  /\ lastOp.hint # 0
  /\ \E i \in Eligible :
       /\ i < lastOp.hint
       /\ itemPlacements[i] = ExpectedZone(i, isMirrored)
       /\ itemPlacements[i] = itemPlacements[lastOp.hint]

\* C17: revealHint returns only an item that was placed, not in outside and
\* not locked; when there is none it returns null and changes nothing.
HintOnlyEligible ==
  [][(lastOp'.name = "revealOneHint" /\ ~isCompleted)
       => /\ lastOp'.hint # 0 => lastOp'.hint \in Eligible
          /\ Eligible = {} => (lastOp'.hint = 0 /\ UNCHANGED store)
          /\ Eligible # {} => lastOp'.hint # 0]_vars

\* C17 witness: revealHint returned null on a store that is not frozen and
\* holds an unlocked item in outside and a locked item.
HintOnlyEligibleWitness ==
  /\ lastOp.name = "revealOneHint"
  /\ lastOp.hint = 0
  /\ ~isCompleted
  /\ \E i \in Items \ lockedItems : itemPlacements[i] = "outside"
  /\ lockedItems # {}

\* C18: when revealHint returns an item id, that item is then mapped to its
\* orientation-adjusted expected zone, is the last element of that zone's
\* order, is in no other zone order and is locked.
HintPlacesAndLocks ==
  (lastOp.name = "revealOneHint" /\ lastOp.hint # 0)
    => LET h == lastOp.hint
           zone == ExpectedZone(h, isMirrored)
       IN  /\ itemPlacements[h] = zone
           /\ Len(zoneOrder[zone]) >= 1
           /\ zoneOrder[zone][Len(zoneOrder[zone])] = h
           /\ \A z \in Zones \ {zone} : h \notin Members(zoneOrder[z])
           /\ h \in lockedItems

\* C18 witness: the hinted item was moved behind another item of its
\* mirrored expected zone.
HintPlacesAndLocksWitness ==
  /\ lastOp.name = "revealOneHint"
  /\ lastOp.hint # 0
  /\ isMirrored
  /\ ItemZone(puzzle, lastOp.hint) \in {"left", "right"}
  /\ Len(zoneOrder[itemPlacements[lastOp.hint]]) >= 2

\* C19: a revealHint that returns an item leaves the reveal flags validate
\* would leave for the same prior flags and the same resulting locked set.
HintRevealsAsValidate ==
  [][(lastOp'.name = "revealOneHint" /\ lastOp'.hint # 0)
       => revealedRules' = validateRules(revealedRules, puzzle, lockedItems')]_vars

\* The cards the resolver looked at in the last drop, and the case of three
\* cards with horizontal centers 10, 50 and 90 in one row, the drop being
\* inside the row's vertical span.
DropData == cardData(zoneElement.cards, lastDrop.draggedCardId)

CardAt(centerX) ==
  CHOOSE k \in 1..Len(DropData) : centerX2(DropData[k]) = 2 * centerX

ThreeInOneRow ==
  /\ lastDrop.called
  /\ Len(DropData) = 3
  /\ \A centerX \in {10, 50, 90} :
       \E k \in 1..Len(DropData) : centerX2(DropData[k]) = 2 * centerX
  /\ \A j, k \in 1..Len(DropData) :
       Abs(centerY2(DropData[j]) - centerY2(DropData[k])) < 2 * ROW_TOLERANCE
  /\ \A k \in 1..Len(DropData) :
       lastDrop.y >= DropData[k].top /\ lastDrop.y <= DropData[k].bottom

\* C20 (as claimed): three items in one row with horizontal centers 10, 50
\* and 90: a drop at x=45 returns the id of the item at center 10, a drop at
\* x=5 returns null and a drop at x=95 returns undefined.
SingleRow ==
  ThreeInOneRow
    => /\ lastDrop.x = 45 => lastDrop.result = AnchorId(DropData[CardAt(10)].cardId)
       /\ lastDrop.x = 5 => lastDrop.result = AnchorNull
       /\ lastDrop.x = 95 => lastDrop.result = AnchorUndefined

\* C20 (amended): as above, but a drop at x=95 returns the id of the item
\* at center 90, the last item of the row.
SingleRowAfterLast ==
  ThreeInOneRow
    => /\ lastDrop.x = 45 => lastDrop.result = AnchorId(DropData[CardAt(10)].cardId)
       /\ lastDrop.x = 5 => lastDrop.result = AnchorNull
       /\ lastDrop.x = 95 => lastDrop.result = AnchorId(DropData[CardAt(90)].cardId)

\* C20 witness: a drop at x=45 on the left half of the card at center 50,
\* the cards being enumerated in another order than left to right.
SingleRowAfterLastWitness ==
  /\ ThreeInOneRow
  /\ lastDrop.x = 45
  /\ DropData[CardAt(50)].left <= 45
  /\ CardAt(10) # 1
  /\ lastDrop.result = AnchorId(DropData[CardAt(10)].cardId)

\* The drop ordinate y is inside no vertical span of the rows, below one
\* row and above another.
BetweenRows(rows, y) ==
  /\ \A k \in 1..Len(rows) : y < rowTop(rows[k]) \/ y > rowBottom(rows[k])
  /\ \E k \in 1..Len(rows) : y > rowBottom(rows[k])
  /\ \E k \in 1..Len(rows) : y < rowTop(rows[k])

\* Distance (doubled) from the ordinate y to the vertical center of the
\* first member of a row.
DropDistance(row, y) == Abs(centerY2(row[1]) - 2 * y)

NearestRows(rows, y) ==
  {k \in 1..Len(rows) :
     \A j \in 1..Len(rows) :
       DropDistance(rows[k], y) <= DropDistance(rows[j], y)}

\* C21: a drop between two rows, inside no row's vertical span, is resolved
\* within a row whose first member's vertical center is closest to the drop
\* point: the anchor returned is the anchor computed within that row.
BetweenRowsTakesNearest ==
  (lastDrop.called /\ zoneElement.mounted /\ Len(DropData) >= 2)
    => LET rows == sortedRows(DropData)
       IN  BetweenRows(rows, lastDrop.y)
             => \E k \in NearestRows(rows, lastDrop.y) :
                  lastDrop.result = insertInRow(rows[k], lastDrop.x)

\* C21 witness: a drop between two rows that is strictly closer to the lower
\* row and is resolved to a card of the lower row, the anchor the upper row
\* would give being another one.
BetweenRowsTakesNearestWitness ==
  /\ lastDrop.called
  /\ zoneElement.mounted
  /\ Len(DropData) >= 2
  /\ LET rows == sortedRows(DropData)
     IN  /\ BetweenRows(rows, lastDrop.y)
         /\ Len(rows) = 2
         /\ NearestRows(rows, lastDrop.y) = {2}
         /\ lastDrop.result = AnchorId(rows[2][1].cardId)
         /\ insertInRow(rows[1], lastDrop.x) # lastDrop.result

\* The dragged item of the last gesture is in no zone order.
DraggedInNoOrder == \A z \in Zones : gesture.id \notin Members(zoneOrder[z])

\* C22: a gesture that ends over nothing, over the unplaced pool or over a
\* target that is none of the four zones makes the router call removeItem
\* for the dragged item and nothing else; afterwards an unlocked dragged
\* item is absent from the mapping and from every zone order.
MalformedDropRemoves ==
  (gesture.handled /\ gesture.over \notin Zones)
    => /\ gesture.calls =
            << Call("removeItem", gesture.id, NoZone, AnchorUndefined) >>
       /\ gesture.id \notin lockedItems
            => (itemPlacements[gesture.id] = NoZone /\ DraggedInNoOrder)

\* C22 witness: an item was dropped on the unplaced pool while other items,
\* one of them locked, stay placed.
MalformedDropRemovesWitness ==
  /\ gesture.handled
  /\ gesture.over = "word-pool"
  /\ ~isCompleted
  /\ gesture.id \notin lockedItems
  /\ lockedItems # {}
  /\ Cardinality(PlacedItems) = NumItems - 1

\* C23: a drop on a recognized zone whose container is not in the document
\* (store not frozen) places the item in that zone at the end of its order,
\* with or without a tracked pointer position.
MissingLayoutAppends ==
  (gesture.handled /\ gesture.over \in Zones /\ ~gesture.mounted /\ ~isCompleted)
    => /\ itemPlacements[gesture.id] = gesture.over
       /\ Len(zoneOrder[gesture.over]) >= 1
       /\ zoneOrder[gesture.over][Len(zoneOrder[gesture.over])] = gesture.id
       /\ \A z \in Zones \ {gesture.over} : gesture.id \notin Members(zoneOrder[z])

\* C23 witness: with neither container nor pointer position, the item was
\* appended behind two other items of the zone.
MissingLayoutAppendsWitness ==
  /\ gesture.handled
  /\ gesture.over \in Zones
  /\ ~gesture.mounted
  /\ ~gesture.resolved
  /\ ~isCompleted
  /\ Len(zoneOrder[gesture.over]) = NumItems
  /\ zoneOrder[gesture.over][NumItems] = gesture.id

\* C24: a gesture that ends on a recognized zone of a store that is not
\* frozen makes the router call placeItem once, with the dragged id, the
\* zone and the anchor the resolver returned (undefined, the resolver's
\* answer for a missing container, when there is neither pointer position
\* nor container), and not removeItem; afterwards an unlocked dragged item
\* is mapped to that zone.
ValidDropPlaces ==
  (gesture.handled /\ gesture.over \in Zones /\ ~isCompleted)
    => /\ gesture.calls =
            << Call("placeItem", gesture.id, gesture.over,
                    IF gesture.resolved THEN gesture.result
                    ELSE calculateInsertPosition(NoElement, 0, 0, gesture.id)) >>
       /\ gesture.id \notin lockedItems
            => itemPlacements[gesture.id] = gesture.over

\* C24 witness: the resolver returned a card of the zone and the dragged,
\* unlocked item now stands right behind that card, before another one.
ValidDropPlacesWitness ==
  /\ gesture.handled
  /\ gesture.over \in Zones
  /\ ~isCompleted
  /\ gesture.resolved
  /\ gesture.result.kind = "id"
  /\ gesture.id \notin lockedItems
  /\ Len(zoneOrder[gesture.over]) = NumItems
  /\ zoneOrder[gesture.over][1] = gesture.result.id
  /\ zoneOrder[gesture.over][2] = gesture.id

\* C25: after a puzzle that is not yet completed is loaded, the placement
\* mapping and the four zone orders are empty, nothing is locked, both
\* reveal flags are false and the orientation is standard, whatever the
\* store held before.
PuzzleSwitchResets ==
  [][(lastOp'.name = "loadPuzzle" /\ ~isCompleted')
       => /\ itemPlacements' = EmptyPlacements
          /\ zoneOrder' = EmptyOrder
          /\ lockedItems' = {}
          /\ revealedRules' = NoRules
          /\ isMirrored' = FALSE]_vars

\* C25 witness: another puzzle than the first has been loaded, not
\* completed, and its store is empty.
PuzzleSwitchResetsWitness ==
  /\ lastOp.name = "loadPuzzle"
  /\ ~isCompleted
  /\ puzzle = 4
  /\ PlacedItems = {}
  /\ lockedItems = {}

\* C26: the snapshot stored when the puzzle is completed, restored, gives
\* back the placement mapping, the zone orders, the locked set, the reveal
\* flags and the orientation of the moment of completion.
SnapshotRoundTrip ==
  [][(lastOp'.name = "recordPuzzleCompletion") => UNCHANGED store]_vars

\* A call of validatePuzzle on a store that is not frozen, made while the
\* orientation is not crystallized.
ValidateNotCrystallized ==
  /\ lastOp'.name = "validatePuzzle"
  /\ ~isCompleted
  /\ ~isOrientationCrystallized(puzzle, lockedItems)

\* C28 as stated: the orientation that validatePuzzle resolves while not
\* crystallized is the one calculated from the placements of the locked
\* items alone; the placements of the items that are not locked do not
\* influence it.
OrientationFromLockedOnly ==
  [][ValidateNotCrystallized
       => lastOp'.isMirrored = calculateIsMirrored(puzzle, lockedPlacements)]_vars

\* C28: the orientation that validatePuzzle resolves while not crystallized
\* is calculated from the current placements of all exclusive-zone items,
\* none of which is locked yet: it is mirrored exactly when more of them
\* are placed in the opposite exclusive zone than in their own.
OrientationFromPlacements ==
  [][ValidateNotCrystallized
       => /\ lockedItems \cap (PlacedInOwnZone \cup PlacedInOppositeZone) = {}
          /\ lastOp'.isMirrored
                = (Cardinality(PlacedInOppositeZone)
                     > Cardinality(PlacedInOwnZone))]_vars

\* C28 witness: a validation made while not crystallized resolved mirrored
\* from two items in the opposite zone against one in its own zone, which
\* it left unlocked.
OrientationFromPlacementsWitness ==
  /\ lastOp.name = "validatePuzzle"
  /\ ~isCompleted
  /\ ~lastOp.crystallized
  /\ lastOp.isMirrored
  /\ Cardinality(PlacedInOppositeZone) = 2
  /\ Cardinality(PlacedInOwnZone) = 1
  /\ PlacedInOwnZone \cap lockedItems = {}

\* C29: after a call of validatePuzzle on a store that is not frozen the
\* locked set is the locked set before the call united with the ids
\* returned in correct, and no id returned in incorrect has been added.
ValidateLocksCorrect ==
  [][(lastOp'.name = "validatePuzzle" /\ ~isCompleted)
       => /\ lockedItems' = lockedItems \cup lastOp'.correct
          /\ (lastOp'.incorrect \cap lockedItems') \subseteq lockedItems]_vars

\* C29 witness: a validation returned a correct and an incorrect id; the
\* correct one is locked, the incorrect one is not.
ValidateLocksCorrectWitness ==
  /\ lastOp.name = "validatePuzzle"
  /\ ~isCompleted
  /\ lastOp.correct # {}
  /\ lastOp.correct \subseteq lockedItems
  /\ lastOp.incorrect # {}
  /\ lastOp.incorrect \cap lockedItems = {}

\* C30: with at least one other card in the container, a drop below the
\* bottom of every card returns undefined and a drop above the top of every
\* card returns null.
VerticalBounds ==
  (lastDrop.called /\ zoneElement.mounted /\ Len(DropData) >= 1)
    => /\ (\A k \in 1..Len(DropData) : lastDrop.y > DropData[k].bottom)
            => lastDrop.result = AnchorUndefined
       /\ (\A k \in 1..Len(DropData) : lastDrop.y < DropData[k].top)
            => lastDrop.result = AnchorNull

\* C30 witness: a drop below two rows of cards, the dragged card being one
\* of the container's cards, returned undefined.
VerticalBoundsWitness ==
  /\ lastDrop.called
  /\ zoneElement.mounted
  /\ Len(DropData) = 2
  /\ Len(zoneElement.cards) = 3
  /\ Len(sortedRows(DropData)) = 2
  /\ \A k \in 1..Len(DropData) : lastDrop.y > DropData[k].bottom
  /\ lastDrop.result = AnchorUndefined

\* C27: in every state that the hook returns to its observers no item is
\* in two zone orders, none is in a zone order but not in the mapping, and
\* none is mapped to a zone whose order does not contain it, although
\* placeItem queues the update of the mapping and the update of the orders
\* separately.
ObserversSeeConsistentStore ==
  \A i \in Items :
    /\ Cardinality({z \in Zones : i \in Members(zoneOrder[z])}) <= 1
    /\ \A z \in Zones :
         i \in Members(zoneOrder[z]) <=> itemPlacements[i] = z

\* C27 witness: two calls were rendered at once, and an item that was in
\* one zone is now first in another zone, before a second item.
ObserversSeeConsistentStoreWitness ==
  /\ lastOp.name = "render"
  /\ lastOp.id = 2 * MaxQueuedCalls
  /\ updateQueue = << >>
  /\ zoneOrder["right"] = << 1, 2 >>
  /\ zoneOrder["left"] = << 3 >>

\* Two cards whose vertical centers differ by less than the row tolerance
\* (centers are doubled).
Near(a, b) == Abs(centerY2(a) - centerY2(b)) < 2 * ROW_TOLERANCE

\* The rows of the rendered cards, as clustered in document order.
RenderedRows == groupRows(<< >>, zoneElement.cards)

\* The two cards are members of one row.
SameRow(rows, a, b) ==
  \E k \in 1..Len(rows) :
    /\ \E m \in 1..Len(rows[k]) : rows[k][m] = a
    /\ \E m \in 1..Len(rows[k]) : rows[k][m] = b

\* Being near is transitive over the rendered cards.
NearIsTransitive ==
  \A a, b, c \in Members(zoneElement.cards) :
    (Near(a, b) /\ Near(b, c)) => Near(a, c)

\* C31 as stated: two cards are in the same row exactly when their vertical
\* centers differ by less than the row tolerance, in whatever order the
\* cards are enumerated.
RowsAreNearClasses ==
  \A a, b \in Members(zoneElement.cards) :
    SameRow(RenderedRows, a, b) <=> Near(a, b)

\* C31: every card of a row is within the row tolerance of the member of
\* that row enumerated first, and the first members of two rows are at
\* least the tolerance apart; when being within the tolerance is transitive
\* over the cards, two cards are in the same row exactly when they are
\* within the tolerance, in whatever order the cards are enumerated.
RowsFollowFirstMember ==
  LET rows == RenderedRows
  IN  /\ \A k \in 1..Len(rows) :
           \A m \in 1..Len(rows[k]) : Near(rows[k][1], rows[k][m])
      /\ \A j, k \in 1..Len(rows) :
           j # k => ~Near(rows[j][1], rows[k][1])
      /\ NearIsTransitive
           => \A a, b \in Members(zoneElement.cards) :
                SameRow(rows, a, b) <=> Near(a, b)

\* C31 witness: three cards with vertical centers 15, 65 and 19, enumerated
\* in that order, are clustered in two rows, the first and the third card
\* together.
RowsFollowFirstMemberWitness ==
  /\ Len(zoneElement.cards) = 3
  /\ centerY2(zoneElement.cards[1]) = 30
  /\ centerY2(zoneElement.cards[2]) = 130
  /\ centerY2(zoneElement.cards[3]) = 38
  /\ Len(RenderedRows) = 2
  /\ SameRow(RenderedRows, zoneElement.cards[1], zoneElement.cards[3])

\* The card ids of a sequence of cards.
CardIds(cards) == [k \in 1..Len(cards) |-> cards[k].cardId]

\* The cards of the rows, row after row.
RECURSIVE Flatten(_)
Flatten(rows) ==
  IF rows = << >> THEN << >> ELSE Head(rows) \o Flatten(Tail(rows))

\* The zone order that the rendered cards show, and the order after
\* placeItem has applied the anchor that the last drop returned.
RenderedOrder == CardIds(zoneElement.cards)

OrderAfterDrop ==
  placeInOrder([z \in Zones |-> IF z = "left" THEN RenderedOrder ELSE << >>],
               lastDrop.draggedCardId, "left", lastDrop.result)["left"]

\* The drop is inside the vertical span of row r alone, left of the middle
\* of its first card; the other cards are laid out in reading order.
DropAtRowStart(rows, r) ==
  /\ Flatten(rows) = DropData
  /\ containingRows(rows, lastDrop.y) = {r}
  /\ 2 * lastDrop.x < centerX2(rows[r][1])

\* The dragged card is in the order immediately before the first card of
\* row r, the other cards keeping their order.
InsertedAtRowStart(rows, r) ==
  OrderAfterDrop =
    spliceIn(CardIds(DropData), indexOf(CardIds(DropData), rows[r][1].cardId),
             lastDrop.draggedCardId)

\* C32: a drop left of, or on the left half of, the first card of the
\* target row returns an anchor with which placeItem inserts the dragged
\* item at the start of that row, for the first row and for every later
\* row (immediately after the last card of the row before).
RowStartInsertion ==
  (lastDrop.called /\ zoneElement.mounted /\ Len(DropData) >= 1)
    => LET rows == sortedRows(DropData)
       IN  \A r \in 1..Len(rows) :
             DropAtRowStart(rows, r) => InsertedAtRowStart(rows, r)

\* C33: the number of check attempts never exceeds MAX_CHECK_ATTEMPTS; when
\* the attempts are used up and an item is not locked the game is over; and
\* once the game is over no step calls validatePuzzle or changes the count.
CheckAttemptLimit ==
  /\ [](appState.checkAttempts <= MAX_CHECK_ATTEMPTS)
  /\ []((appState.checkAttempts = MAX_CHECK_ATTEMPTS /\ lockedItems # Items)
          => appState.isGameOver)
  /\ [][appState.isGameOver
          => (lastOp'.name # "validatePuzzle"
                /\ appState'.checkAttempts = appState.checkAttempts)]_vars

\* C34: within a session the locked set only grows: a call of placeItem,
\* removeItem, validatePuzzle, revealOneHint or autoPlaceAllItems leaves
\* every locked id in the locked set.
LockedSetGrows ==
  [][lastOp'.name \in SessionCalls => lockedItems \subseteq lockedItems']_vars

\* C34 witness: removeItem was called for a locked item of a store that is
\* not frozen; the item is unplaced and still locked.
LockedSetGrowsWitness ==
  /\ lastOp.name = "removeItem"
  /\ ~isCompleted
  /\ lastOp.id \in lockedItems
  /\ itemPlacements[lastOp.id] = NoZone

\* C35: every locked item is in the placement mapping, in its expected
\* zone under the current orientation.
LockedItemsInExpectedZone ==
  \A i \in lockedItems :
    /\ itemPlacements[i] # NoZone
    /\ itemPlacements[i] = ExpectedZone(i, isMirrored)

\* C36: a reveal flag that is true has at least three locked items of its
\* canonical zone, or every item of the puzzle is locked.
RevealFlagsNotEarly ==
  /\ revealedRules.left
       => (leftCount(puzzle, lockedItems) >= RevealThreshold
             \/ lockedItems = Items)
  /\ revealedRules.right
       => (rightCount(puzzle, lockedItems) >= RevealThreshold
             \/ lockedItems = Items)

\* C36 witness: only the left flag is true, three left items being locked,
\* one of them in the right zone.
RevealFlagsNotEarlyWitness ==
  /\ ~isCompleted
  /\ revealedRules.left
  /\ ~revealedRules.right
  /\ leftCount(puzzle, lockedItems) = RevealThreshold
  /\ \E i \in lockedItems : itemPlacements[i] = "right"

\* C37: a call of validatePuzzle leaves the placement mapping and the four
\* zone orders unchanged.
ValidateMovesNothing ==
  [][lastOp'.name = "validatePuzzle"
       => UNCHANGED << itemPlacements, zoneOrder >>]_vars

\* C37 witness: a validation of a store that is not frozen found two
\* items incorrect; both are still in the order of the zone they were
\* placed in.
ValidateMovesNothingWitness ==
  /\ lastOp.name = "validatePuzzle"
  /\ ~isCompleted
  /\ Cardinality(lastOp.incorrect) = 2
  /\ \A i \in lastOp.incorrect :
       /\ itemPlacements[i] # NoZone
       /\ i \in Members(zoneOrder[itemPlacements[i]])

\* C38: a call of placeItem or removeItem for the item x leaves the mapping
\* entry of every other item unchanged, keeps the relative order of the
\* other ids in every zone order, and leaves the locked set, the reveal
\* flags and the orientation unchanged.
StoreCallsTouchOneItem ==
  [][lastOp'.name \in StoreCalls
       => /\ \A i \in Items \ {lastOp'.id} :
               itemPlacements'[i] = itemPlacements[i]
          /\ \A z \in Zones :
               Without(zoneOrder'[z], lastOp'.id)
                 = Without(zoneOrder[z], lastOp'.id)
          /\ UNCHANGED << lockedItems, revealedRules, isMirrored >>]_vars

\* C38 witness: item 3 was placed between items 1 and 2 of the left zone,
\* item 1 being locked.
StoreCallsTouchOneItemWitness ==
  /\ lastOp.name = "placeItem"
  /\ lastOp.id = 3
  /\ ~isCompleted
  /\ zoneOrder["left"] = << 1, 3, 2 >>
  /\ lockedItems = {1}

\* C39: the resolver returns null, undefined, or the id of a card of the
\* container other than the dragged card.
ResolverOutputValid ==
  lastDrop.called
    => /\ lastDrop.result \in
            {AnchorNull, AnchorUndefined}
              \cup {AnchorId(zoneElement.cards[k].cardId) :
                      k \in 1..Len(zoneElement.cards)}
       /\ lastDrop.result.kind = "id"
            => lastDrop.result.id # lastDrop.draggedCardId

\* C39 witness: a card of the container was dropped on its own place and
\* the resolver returned the id of another card.
ResolverOutputValidWitness ==
  /\ lastDrop.called
  /\ lastDrop.result.kind = "id"
  /\ \E k \in 1..Len(zoneElement.cards) :
       /\ zoneElement.cards[k].cardId = lastDrop.draggedCardId
       /\ zoneElement.cards[k].left <= lastDrop.x
       /\ lastDrop.x <= zoneElement.cards[k].right
       /\ zoneElement.cards[k].top <= lastDrop.y
       /\ lastDrop.y <= zoneElement.cards[k].bottom

====
